---- MODULE Spec2Model ----
(***************************************************************************)
(* Model of analytics_project/utils/data_scrubber.py: the DataScrubber     *)
(* class, a wrapper around one pandas DataFrame (self.df).                 *)
(*                                                                         *)
(* A DataFrame is modelled positionally: a sequence of column labels, a   *)
(* sequence of column dtypes and a sequence of rows, each row carrying its *)
(* index label and one cell per column position.  Column labels may repeat *)
(* (pandas allows it), so columns are addressed by position and looked up  *)
(* by label the way pandas does.                                           *)
(*                                                                         *)
(* Python objects live in a two-slot heap: "caller" is the DataFrame the   *)
(* caller passed to DataScrubber(df), "own" is the object self.df refers   *)
(* to once the scrubber holds an object of its own.  A method that assigns *)
(* into self.df (self.df[col] = ...) mutates the object self.df refers to; *)
(* a method that rebinds self.df (self.df = self.df.drop(...)) stores a    *)
(* new object.                                                             *)
(***************************************************************************)
EXTENDS Integers, Sequences, FiniteSets, TLC

\* ------------------------------------------------------------------ bounds

\* Rows of the table handed to the constructor.
MaxRows == 2

\* Calls made on one scrubber (or by the caller on its own table) in one run.
MaxCalls == 2

\* Rows of a raw file a data preparation script reads.
MaxPipelineRows == 3

\* ------------------------------------------------------------------ cells

Null == [k |-> "null", n |-> 0, s |-> <<>>]

IntV(i) == [k |-> "int", n |-> i, s |-> <<>>]

FloatV(i) == [k |-> "float", n |-> i, s |-> <<>>]

StrV(cs) == [k |-> "str", n |-> 0, s |-> cs]

DateV(i) == [k |-> "date", n |-> i, s |-> <<>>]

IsNull(v) == v.k = "null"

IsNum(v) == v.k \in {"int", "float"}

\* pandas compares 2 and 2.0 as equal and NaN as equal to NaN when it looks
\* for duplicate rows.
CellEq(a, b) ==
    \/ a = b
    \/ IsNum(a) /\ IsNum(b) /\ a.n = b.n

\* ---------------------------------------------------------------- strings
\* A string is a sequence of one-character strings.

LowerChar(c) == CASE c = "A" -> "a" [] c = "N" -> "n" [] OTHER -> c

UpperChar(c) == CASE c = "a" -> "A" [] c = "n" -> "N" [] OTHER -> c

str_lower(s) == [i \in 1..Len(s) |-> LowerChar(s[i])]

str_upper(s) == [i \in 1..Len(s) |-> UpperChar(s[i])]

RECURSIVE LStrip(_)
LStrip(s) == IF s # <<>> /\ Head(s) = " " THEN LStrip(Tail(s)) ELSE s

RECURSIVE RStrip(_)
RStrip(s) ==
    IF s # <<>> /\ s[Len(s)] = " " THEN RStrip(SubSeq(s, 1, Len(s) - 1)) ELSE s

str_strip(s) == RStrip(LStrip(s))

Digit(i) == CASE i = 0 -> "0" [] i = 1 -> "1" [] i = 2 -> "2" [] i = 3 -> "3" [] OTHER -> "9"

IsDigitChar(c) == c \in {"0", "1", "2", "3", "9"}

DigitValue(c) == CASE c = "0" -> 0 [] c = "1" -> 1 [] c = "2" -> 2 [] c = "3" -> 3 [] OTHER -> 9

\* str(x) of one cell, as Series.astype(str) renders it.
PyStr(v) ==
    CASE v.k = "str" -> v.s
      [] v.k = "int" -> <<Digit(v.n)>>
      [] v.k = "float" -> <<Digit(v.n), ".", "0">>
      [] v.k = "date" -> <<"T", Digit(v.n)>>
      [] OTHER -> <<"n", "a", "n">>

\* ----------------------------------------------------------------- tables

Table(names, dtypes, rows) == [names |-> names, dtypes |-> dtypes, rows |-> rows]

Row(idx, cells) == [idx |-> idx, cells |-> cells]

NCols(t) == Len(t.names)

NRows(t) == Len(t.rows)

Labels(t) == {t.names[i] : i \in 1..NCols(t)}

\* "column in self.df.columns"
HasColumn(t, c) == c \in Labels(t)

\* The positions carrying label c, left to right.
Positions(t, c) == {i \in 1..NCols(t) : t.names[i] = c}

UniqueLabels(t) == \A i, j \in 1..NCols(t) : t.names[i] = t.names[j] => i = j

Range(f) == {f[i] : i \in DOMAIN f}

IsRepeatFree(seq) == \A i, j \in 1..Len(seq) : seq[i] = seq[j] => i = j

\* The cells of one column position, top to bottom.
ColumnCells(t, p) == [r \in 1..NRows(t) |-> t.rows[r].cells[p]]

\* DataFrame.empty: some axis has length 0.
IsEmptyFrame(t) == NCols(t) = 0 \/ NRows(t) = 0

\* Keep the rows whose position satisfies keep, in order, index labels kept.
RECURSIVE FilterRowsFrom(_, _, _)
FilterRowsFrom(rows, keep, i) ==
    IF i > Len(rows) THEN <<>>
    ELSE (IF keep[i] THEN <<rows[i]>> ELSE <<>>) \o FilterRowsFrom(rows, keep, i + 1)

TakeRows(t, keep) == Table(t.names, t.dtypes, FilterRowsFrom(t.rows, keep, 1))

\* Project every row (and the labels, the dtypes) onto the positions in ps.
TakeColumns(t, ps) ==
    Table([i \in 1..Len(ps) |-> t.names[ps[i]]],
          [i \in 1..Len(ps) |-> t.dtypes[ps[i]]],
          [r \in 1..NRows(t) |->
              Row(t.rows[r].idx, [i \in 1..Len(ps) |-> t.rows[r].cells[ps[i]]])])

\* Replace the cells and the dtype of column position p.
SetColumn(t, p, cells, dtype) ==
    Table(t.names,
          [t.dtypes EXCEPT ![p] = dtype],
          [r \in 1..NRows(t) |->
              Row(t.rows[r].idx, [t.rows[r].cells EXCEPT ![p] = cells[r]])])

\* Append a new column at the right.
AppendColumn(t, label, cells, dtype) ==
    Table(Append(t.names, label),
          Append(t.dtypes, dtype),
          [r \in 1..NRows(t) |->
              Row(t.rows[r].idx, Append(t.rows[r].cells, cells[r]))])

\* --------------------------------------------------- pandas: column access

\* The outcome of one pandas expression or one DataScrubber method on a table:
\* the resulting table and the exception that escaped ("none" when the call
\* returned).  "ColumnNotFound" is the ValueError the class raises itself;
\* the other kinds are raised by pandas or Python and are not caught.
Ok(t) == [df |-> t, err |-> "none"]

Raise(t, e) == [df |-> t, err |-> e]

\* The positions of label c in increasing order.
RECURSIVE PositionsFrom(_, _, _)
PositionsFrom(t, c, i) ==
    IF i > NCols(t) THEN <<>>
    ELSE (IF t.names[i] = c THEN <<i>> ELSE <<>>) \o PositionsFrom(t, c, i + 1)

\* df[[l1, l2, ...]]: for each listed label in turn, every position carrying it.
RECURSIVE IndexerFor(_, _)
IndexerFor(t, labels) ==
    IF labels = <<>> THEN <<>>
    ELSE PositionsFrom(t, Head(labels), 1) \o IndexerFor(t, Tail(labels))

\* The positions whose label is not among labels, in increasing order.
RECURSIVE PositionsNotIn(_, _, _)
PositionsNotIn(t, labels, i) ==
    IF i > NCols(t) THEN <<>>
    ELSE (IF t.names[i] \in labels THEN <<>> ELSE <<i>>) \o PositionsNotIn(t, labels, i + 1)

\* "for column in columns: if column not in self.df.columns: raise ValueError"
FirstMissing(t, columns) ==
    \E i \in 1..Len(columns) : ~HasColumn(t, columns[i])

\* ------------------------------------------------------------ drop_columns

\* Mutant of drop_columns_df: the present columns are dropped before the
\* missing one is reported.
drop_columns_df_partial(t, columns) ==
    IF FirstMissing(t, columns)
    THEN Raise(TakeColumns(t, PositionsNotIn(t, Range(columns), 1)), "ColumnNotFound")
    ELSE Ok(TakeColumns(t, PositionsNotIn(t, Range(columns), 1)))

drop_columns_df(t, columns) ==
    IF FirstMissing(t, columns) THEN Raise(t, "ColumnNotFound")
    ELSE Ok(TakeColumns(t, PositionsNotIn(t, Range(columns), 1)))

\* ---------------------------------------------------------- rename_columns
\* column_mapping is a dict: a function from old labels to new labels.

RenameLabel(mapping, label) ==
    IF label \in DOMAIN mapping THEN mapping[label] ELSE label

\* Mutant of rename_columns_df: the present columns are renamed before the
\* missing one is reported.
rename_columns_df_partial(t, column_mapping) ==
    LET renamed == Table([i \in 1..NCols(t) |-> RenameLabel(column_mapping, t.names[i])],
                         t.dtypes, t.rows)
    IN IF \E old_name \in DOMAIN column_mapping : ~HasColumn(t, old_name)
       THEN Raise(renamed, "ColumnNotFound")
       ELSE Ok(renamed)

rename_columns_df(t, column_mapping) ==
    IF \E old_name \in DOMAIN column_mapping : ~HasColumn(t, old_name)
    THEN Raise(t, "ColumnNotFound")
    ELSE Ok(Table([i \in 1..NCols(t) |-> RenameLabel(column_mapping, t.names[i])],
                  t.dtypes, t.rows))

\* --------------------------------------------------------- reorder_columns

reorder_columns_df(t, columns) ==
    IF FirstMissing(t, columns) THEN Raise(t, "ColumnNotFound")
    ELSE Ok(TakeColumns(t, IndexerFor(t, columns)))

\* ------------------------------------------------ remove_duplicate_records

RowsEqual(a, b) == \A i \in 1..Len(a.cells) : CellEq(a.cells[i], b.cells[i])

\* Mutant of Duplicated: keep=False, every row that has an equal row is marked.
DuplicatedKeepNone(t) ==
    [r \in 1..NRows(t) |->
        /\ ~IsEmptyFrame(t)
        /\ \E q \in 1..NRows(t) : q # r /\ RowsEqual(t.rows[q], t.rows[r])]

\* DataFrame.duplicated(): a row is marked when an earlier row equals it in
\* every column; an empty frame (no rows or no columns) marks nothing.
Duplicated(t) ==
    [r \in 1..NRows(t) |->
        /\ ~IsEmptyFrame(t)
        /\ \E q \in 1..(r - 1) : RowsEqual(t.rows[q], t.rows[r])]

\* Mutant of DropDuplicates: keep="last", the later occurrence survives.
DropDuplicatesKeepLast(t) ==
    TakeRows(t, [r \in 1..NRows(t) |->
                    \/ IsEmptyFrame(t)
                    \/ ~\E q \in (r + 1)..NRows(t) : RowsEqual(t.rows[q], t.rows[r])])

\* Mutant of DropDuplicates: the surviving rows come out in reverse order.
DropDuplicatesReversed(t) ==
    LET kept == FilterRowsFrom(t.rows,
                               [r \in 1..NRows(t) |->
                                   \/ IsEmptyFrame(t)
                                   \/ ~\E q \in 1..(r - 1) : RowsEqual(t.rows[q], t.rows[r])],
                               1)
    IN Table(t.names, t.dtypes, [i \in 1..Len(kept) |-> kept[Len(kept) + 1 - i]])

\* DataFrame.drop_duplicates(): keep="first", index labels kept.
DropDuplicates(t) ==
    TakeRows(t, [r \in 1..NRows(t) |-> ~Duplicated(t)[r]])

remove_duplicate_records_df(t) == Ok(DropDuplicates(t))

\* ----------------------------------------------------- handle_missing_data

RowHasNull(row) == \E i \in 1..Len(row.cells) : IsNull(row.cells[i])

\* DataFrame.dropna()
DropNa(t) == TakeRows(t, [r \in 1..NRows(t) |-> ~RowHasNull(t.rows[r])])

ColumnHasNull(t, p) == \E r \in 1..NRows(t) : IsNull(t.rows[r].cells[p])

\* The value a null of a column of this dtype takes from fillna(value): a
\* float64 column stores a number as a float and stays float64; any other
\* combination leaves the column holding Python objects.
FillCell(dtype, value) ==
    IF dtype = "float64" /\ IsNum(value) THEN FloatV(value.n) ELSE value

FillDtype(dtype, value) ==
    IF dtype = "float64" /\ IsNum(value) THEN "float64" ELSE "object"

\* DataFrame.fillna(value): columns without nulls are left as they are.
FillNa(t, value) ==
    Table(t.names,
          [p \in 1..NCols(t) |->
              IF ColumnHasNull(t, p) THEN FillDtype(t.dtypes[p], value) ELSE t.dtypes[p]],
          [r \in 1..NRows(t) |->
              Row(t.rows[r].idx,
                  [p \in 1..NCols(t) |->
                      IF IsNull(t.rows[r].cells[p])
                      THEN FillCell(t.dtypes[p], value)
                      ELSE t.rows[r].cells[p]])])

\* Python truthiness of a fill value: None, 0 and "" are falsy.
Truthy(value) ==
    /\ ~IsNull(value)
    /\ ~(IsNum(value) /\ value.n = 0)
    /\ ~(value.k = "str" /\ value.s = <<>>)

\* Mutant of handle_missing_data_df: "elif fill_value:" in place of
\* "elif fill_value is not None:".
handle_missing_data_df_truthy(t, drop, fill_value) ==
    IF drop THEN Ok(DropNa(t))
    ELSE IF Truthy(fill_value) THEN Ok(FillNa(t, fill_value))
    ELSE Ok(t)

\* fill_value None is modelled by Null.
handle_missing_data_df(t, drop, fill_value) ==
    IF drop THEN Ok(DropNa(t))
    ELSE IF fill_value # Null THEN Ok(FillNa(t, fill_value))
    ELSE Ok(t)

\* -------------------------------------------------- filter_column_outliers

\* Series >= number, Series <= number: pandas raises TypeError for a
\* datetime64 column and for an object column holding a str or a date.
Comparable(t, p) ==
    /\ t.dtypes[p] # "datetime64"
    /\ \A r \in 1..NRows(t) : t.rows[r].cells[p].k \notin {"str", "date"}

\* (value >= lower_bound) & (value <= upper_bound); a null compares False.
InBounds(v, lower_bound, upper_bound) ==
    IsNum(v) /\ v.n >= lower_bound /\ v.n <= upper_bound

\* DataFrame.where(mask) on the listed positions: a cell whose mask is False
\* becomes NaN, and an int64 column that receives a NaN becomes float64.
MaskColumns(t, lower_bound, upper_bound) ==
    LET masked(p) == \E r \in 1..NRows(t) :
                        ~InBounds(t.rows[r].cells[p], lower_bound, upper_bound)
        toFloat(p) == t.dtypes[p] = "int64" /\ masked(p)
    IN Table(t.names,
             [p \in 1..NCols(t) |-> IF toFloat(p) THEN "float64" ELSE t.dtypes[p]],
             [r \in 1..NRows(t) |->
                 Row(t.rows[r].idx,
                     [p \in 1..NCols(t) |->
                         LET v == t.rows[r].cells[p]
                         IN IF ~InBounds(v, lower_bound, upper_bound) THEN Null
                            ELSE IF toFloat(p) THEN FloatV(v.n) ELSE v])])

\* self.df[(self.df[column] >= lower_bound) & (self.df[column] <= upper_bound)]
\* With one column of that label the mask is a Series and selects rows.  With
\* several, self.df[column] and the mask are DataFrames and self.df[mask] is
\* self.df.where(mask): it masks cells when the mask's labels are those of
\* the frame, and raises ValueError (duplicate labels cannot be reindexed)
\* when the frame has other columns too.
filter_column_outliers_df(t, column, lower_bound, upper_bound) ==
    LET ps == PositionsFrom(t, column, 1)
    IN IF ps = <<>> THEN Raise(t, "ColumnNotFound")
       ELSE IF \E i \in 1..Len(ps) : ~Comparable(t, ps[i]) THEN Raise(t, "TypeError")
       ELSE IF Len(ps) = 1
            THEN Ok(TakeRows(t, [r \in 1..NRows(t) |->
                        InBounds(t.rows[r].cells[ps[1]], lower_bound, upper_bound)]))
       ELSE IF Len(ps) = NCols(t) THEN Ok(MaskColumns(t, lower_bound, upper_bound))
       ELSE Raise(t, "ValueError")

\* ------------------------------------------------- format_column_strings_*

\* Series.str exists for an object column whose values are inferred as
\* strings, mixed or empty; otherwise pandas raises AttributeError.
StrAccessorOk(t, p) ==
    /\ t.dtypes[p] = "object"
    /\ \/ \E r \in 1..NRows(t) : t.rows[r].cells[p].k = "str"
       \/ \A r \in 1..NRows(t) : IsNull(t.rows[r].cells[p])

\* .str.lower().str.strip(): a value that is not a str becomes NaN.
LowerTrimCell(v) == IF v.k = "str" THEN StrV(str_strip(str_lower(v.s))) ELSE Null

\* .astype(str).str.lower().str.strip()
StrLowerTrimCell(v) == StrV(str_strip(str_lower(PyStr(v))))

\* .astype(str).str.upper().str.strip()
StrUpperTrimCell(v) == StrV(str_strip(str_upper(PyStr(v))))

\* Mutant of format_column_strings_to_lower_and_trim_df: an absent column is
\* skipped without an error.
format_column_strings_to_lower_and_trim_df_skip(t, column) ==
    LET ps == PositionsFrom(t, column, 1)
    IN IF ps = <<>> THEN Ok(t)
       ELSE IF Len(ps) > 1 \/ ~StrAccessorOk(t, ps[1]) THEN Raise(t, "AttributeError")
       ELSE Ok(SetColumn(t, ps[1],
                         [r \in 1..NRows(t) |-> LowerTrimCell(t.rows[r].cells[ps[1]])],
                         "object"))

\* self.df[column] = self.df[column].str.lower().str.strip()
\* A repeated label makes self.df[column] a DataFrame, which has no .str.
format_column_strings_to_lower_and_trim_df(t, column) ==
    LET ps == PositionsFrom(t, column, 1)
    IN IF ps = <<>> THEN Raise(t, "ColumnNotFound")
       ELSE IF Len(ps) > 1 \/ ~StrAccessorOk(t, ps[1]) THEN Raise(t, "AttributeError")
       ELSE Ok(SetColumn(t, ps[1],
                         [r \in 1..NRows(t) |-> LowerTrimCell(t.rows[r].cells[ps[1]])],
                         "object"))

\* self.df[column] = self.df[column].astype(str).str.upper().str.strip()
format_column_strings_to_upper_and_trim_df(t, column) ==
    LET ps == PositionsFrom(t, column, 1)
    IN IF ps = <<>> THEN Raise(t, "ColumnNotFound")
       ELSE IF Len(ps) > 1 THEN Raise(t, "AttributeError")
       ELSE Ok(SetColumn(t, ps[1],
                         [r \in 1..NRows(t) |-> StrUpperTrimCell(t.rows[r].cells[ps[1]])],
                         "object"))

\* ----------------------------------------- convert_column_to_new_data_type

RECURSIVE DecimalValue(_)
DecimalValue(s) ==
    IF s = <<>> THEN 0
    ELSE 10 * DecimalValue(SubSeq(s, 1, Len(s) - 1)) + DigitValue(s[Len(s)])

\* int(x) succeeds for a number, a date and a str of digits (blanks around
\* it allowed); it fails for NaN and for any other str.
IntCastable(v) ==
    \/ v.k \in {"int", "float", "date"}
    \/ /\ v.k = "str"
       /\ str_strip(v.s) # <<>>
       /\ \A i \in 1..Len(str_strip(v.s)) : IsDigitChar(str_strip(v.s)[i])

IntCast(v) == IF v.k = "str" THEN IntV(DecimalValue(str_strip(v.s))) ELSE IntV(v.n)

\* Series.astype(new_type) of one value.
CastCell(v, new_type) == IF new_type = "str" THEN StrV(PyStr(v)) ELSE IntCast(v)

CastDtype(new_type) == IF new_type = "str" THEN "object" ELSE "int64"

\* Assign the cast cells to every position in ps.
RECURSIVE CastColumns(_, _, _)
CastColumns(t, ps, new_type) ==
    IF ps = <<>> THEN t
    ELSE CastColumns(SetColumn(t, Head(ps),
                               [r \in 1..NRows(t) |->
                                   CastCell(t.rows[r].cells[Head(ps)], new_type)],
                               CastDtype(new_type)),
                     Tail(ps), new_type)

\* self.df[column] = self.df[column].astype(new_type), new_type int or str.
convert_column_to_new_data_type_df(t, column, new_type) ==
    LET ps == PositionsFrom(t, column, 1)
    IN IF ps = <<>> THEN Raise(t, "ColumnNotFound")
       ELSE IF /\ new_type = "int"
               /\ \E i \in 1..Len(ps) : \E r \in 1..NRows(t) :
                      ~IntCastable(t.rows[r].cells[ps[i]])
            THEN Raise(t, "ValueError")
       ELSE Ok(CastColumns(t, ps, new_type))

\* ------------------------------------- parse_dates_to_add_standard_datetime

\* The spellings pandas reads as a missing date.
IsNaTString(s) == str_strip(s) = <<>> \/ str_lower(s) = <<"n", "a", "n">>

\* A str parses when it spells a missing date; no other string over this
\* model's characters (blank, a, A, n, N, T, digits, point) is a date.
DateParsable(v) == v.k # "str" \/ IsNaTString(v.s)

\* pd.to_datetime of one value: a number counts from the epoch, NaN is NaT.
ToDatetimeCell(v) ==
    IF v.k \in {"int", "float", "date"} THEN DateV(v.n) ELSE Null

\* Mutant of parse_dates_to_add_standard_datetime_df: the parsed values
\* replace the source column.
parse_dates_in_place_df(t, column) ==
    LET ps == PositionsFrom(t, column, 1)
        parsed == [r \in 1..NRows(t) |-> ToDatetimeCell(t.rows[r].cells[ps[1]])]
    IN IF ps = <<>> THEN Raise(t, "ColumnNotFound")
       ELSE IF Len(ps) > 1 THEN Raise(t, "ValueError")
       ELSE IF \E r \in 1..NRows(t) : ~DateParsable(t.rows[r].cells[ps[1]])
            THEN Raise(t, "ValueError")
       ELSE Ok(SetColumn(t, ps[1], parsed, "datetime64"))

\* self.df['StandardDateTime'] = pd.to_datetime(self.df[column])
\* errors="raise": an unparsable value raises.  A repeated label hands
\* to_datetime a DataFrame, which it cannot assemble into dates.
parse_dates_to_add_standard_datetime_df(t, column) ==
    LET ps == PositionsFrom(t, column, 1)
        parsed == [r \in 1..NRows(t) |-> ToDatetimeCell(t.rows[r].cells[ps[1]])]
        at == PositionsFrom(t, "StandardDateTime", 1)
    IN IF ps = <<>> THEN Raise(t, "ColumnNotFound")
       ELSE IF Len(ps) > 1 THEN Raise(t, "ValueError")
       ELSE IF \E r \in 1..NRows(t) : ~DateParsable(t.rows[r].cells[ps[1]])
            THEN Raise(t, "ValueError")
       ELSE IF at = <<>> THEN Ok(AppendColumn(t, "StandardDateTime", parsed, "datetime64"))
       ELSE Ok(SetColumn(t, at[1], parsed, "datetime64"))

\* ------------------------------------------------------ consistency checks

RECURSIVE CountTrue(_, _)
CountTrue(flags, i) ==
    IF i > Len(flags) THEN 0
    ELSE (IF flags[i] THEN 1 ELSE 0) + CountTrue(flags, i + 1)

\* self.df.isnull().sum(): per column position, the number of null cells.
null_counts(t) ==
    [p \in 1..NCols(t) |->
        CountTrue([r \in 1..NRows(t) |-> IsNull(t.rows[r].cells[p])], 1)]

\* self.df.duplicated().sum()
duplicate_count(t) == CountTrue(Duplicated(t), 1)

RECURSIVE SumSeq(_, _)
SumSeq(ns, i) == IF i > Len(ns) THEN 0 ELSE ns[i] + SumSeq(ns, i + 1)

\* {"null_counts": null_counts, "duplicate_count": duplicate_count}
ConsistencySnapshot(t) ==
    [null_counts |-> null_counts(t), duplicate_count |-> duplicate_count(t)]

check_data_consistency_before_cleaning_df(t) == Ok(t)

\* Mutant of check_data_consistency_after_cleaning_df: the assertion on the
\* duplicate count is missing.
check_data_consistency_after_cleaning_df_nulls_only(t) ==
    IF SumSeq(null_counts(t), 1) # 0 THEN Raise(t, "AssertionError") ELSE Ok(t)

\* The assert statements are active (the interpreter runs without -O).
check_data_consistency_after_cleaning_df(t) ==
    IF SumSeq(null_counts(t), 1) # 0 THEN Raise(t, "AssertionError")
    ELSE IF duplicate_count(t) # 0 THEN Raise(t, "AssertionError")
    ELSE Ok(t)

\* self.df.describe() raises ValueError for a frame without columns.
inspect_data_df(t) == IF NCols(t) = 0 THEN Raise(t, "ValueError") ELSE Ok(t)

\* ----------------------------------------------------- objects and binding

\* The interpreter state a method runs in: the heap, the object self.df
\* refers to, and the exception in flight.
Cur(st) == st.heap[st.ref]

\* self.df[...] = value: the object self.df refers to is changed in place.
InPlace(st, r) ==
    [heap |-> [st.heap EXCEPT ![st.ref] = r.df], ref |-> st.ref, err |-> r.err]

\* self.df = <new DataFrame>: self.df is bound to a new object.  A method
\* that raises before it assigns leaves self.df bound as it was.
Rebind(st, r) ==
    IF r.err # "none" /\ r.df = Cur(st) THEN [st EXCEPT !.err = r.err]
    ELSE [heap |-> [st.heap EXCEPT !["own"] = r.df], ref |-> "own", err |-> r.err]

\* A method that only reads self.df.
ReadOnly(st, r) == [st EXCEPT !.err = r.err]

\* df.copy(deep=True): a new object holding a copy of the caller's table.
DeepCopy(heap) == [heap |-> [heap EXCEPT !["own"] = heap["caller"]], ref |-> "own"]

\* Mutant of DataScrubberInit: self.df = df, no copy taken.
DataScrubberInitNoCopy(heap) == [heap |-> heap, ref |-> "caller"]

\* DataScrubber.__init__: self.df = df.copy(deep=True)
DataScrubberInit(heap) == DeepCopy(heap)

\* ------------------------------------------------------------ the methods

convert_column_to_new_data_type(st, column, new_type) ==
    InPlace(st, convert_column_to_new_data_type_df(Cur(st), column, new_type))

drop_columns(st, columns) == Rebind(st, drop_columns_df(Cur(st), columns))

filter_column_outliers(st, column, lower_bound, upper_bound) ==
    Rebind(st, filter_column_outliers_df(Cur(st), column, lower_bound, upper_bound))

format_column_strings_to_lower_and_trim(st, column) ==
    InPlace(st, format_column_strings_to_lower_and_trim_df(Cur(st), column))

format_column_strings_to_upper_and_trim(st, column) ==
    InPlace(st, format_column_strings_to_upper_and_trim_df(Cur(st), column))

handle_missing_data(st, drop, fill_value) ==
    Rebind(st, handle_missing_data_df(Cur(st), drop, fill_value))

parse_dates_to_add_standard_datetime(st, column) ==
    InPlace(st, parse_dates_to_add_standard_datetime_df(Cur(st), column))

remove_duplicate_records(st) == Rebind(st, remove_duplicate_records_df(Cur(st)))

rename_columns(st, column_mapping) ==
    Rebind(st, rename_columns_df(Cur(st), column_mapping))

reorder_columns(st, columns) == Rebind(st, reorder_columns_df(Cur(st), columns))

check_data_consistency_before_cleaning(st) ==
    ReadOnly(st, check_data_consistency_before_cleaning_df(Cur(st)))

check_data_consistency_after_cleaning(st) ==
    ReadOnly(st, check_data_consistency_after_cleaning_df(Cur(st)))

inspect_data(st) == ReadOnly(st, inspect_data_df(Cur(st)))

\* -------------------------------------------------------------- clean_data

\* self.df[col] = self.df[col].astype(str).str.lower().str.strip()
clean_lower_df(t, col) ==
    LET ps == PositionsFrom(t, col, 1)
    IN IF Len(ps) > 1 THEN Raise(t, "AttributeError")
       ELSE Ok(SetColumn(t, ps[1],
                         [r \in 1..NRows(t) |-> StrLowerTrimCell(t.rows[r].cells[ps[1]])],
                         "object"))

\* self.df[col] = self.df[col].astype(str).str.upper().str.strip()
clean_upper_df(t, col) ==
    LET ps == PositionsFrom(t, col, 1)
    IN IF Len(ps) > 1 THEN Raise(t, "AttributeError")
       ELSE Ok(SetColumn(t, ps[1],
                         [r \in 1..NRows(t) |-> StrUpperTrimCell(t.rows[r].cells[ps[1]])],
                         "object"))

\* self.df[col] = pd.to_datetime(self.df[col], errors="coerce")
clean_date_df(t, col) ==
    LET ps == PositionsFrom(t, col, 1)
    IN IF Len(ps) > 1 THEN Raise(t, "ValueError")
       ELSE Ok(SetColumn(t, ps[1],
                         [r \in 1..NRows(t) |-> ToDatetimeCell(t.rows[r].cells[ps[1]])],
                         "datetime64"))

CleanColumn(t, col, step) ==
    CASE step = "lower" -> clean_lower_df(t, col)
      [] step = "upper" -> clean_upper_df(t, col)
      [] OTHER -> clean_date_df(t, col)

\* "for col in cols: if col in self.df.columns: self.df[col] = ...": an
\* exception ends the loop and the method.
RECURSIVE CleanColumns(_, _, _)
CleanColumns(st, cols, step) ==
    IF cols = <<>> \/ st.err # "none" THEN st
    ELSE CleanColumns(IF HasColumn(Cur(st), Head(cols))
                      THEN InPlace(st, CleanColumn(Cur(st), Head(cols), step))
                      ELSE st,
                      Tail(cols), step)

\* "try: self.remove_duplicate_records() except Exception: pass"
CleanDuplicates(st, drop_duplicates) ==
    IF ~drop_duplicates THEN st
    ELSE LET r == remove_duplicate_records(st)
         IN IF r.err # "none" THEN st ELSE r

CleanMissing(st, drop_na, fill_value) ==
    IF drop_na THEN handle_missing_data(st, TRUE, Null)
    ELSE IF fill_value # Null THEN handle_missing_data(st, FALSE, fill_value)
    ELSE st

\* Mutant of CleanRename: self.df = self.df.rename(columns=rename_map) without
\* the check, which renames the old names that are present.
CleanRenamePresent(st, rename_map) ==
    IF DOMAIN rename_map = {} \/ st.err # "none" THEN st
    ELSE Rebind(st, Ok(rename_columns_df_partial(Cur(st), rename_map).df))

\* "try: self.rename_columns(rename_map) except ValueError: pass"
CleanRename(st, rename_map) ==
    IF DOMAIN rename_map = {} \/ st.err # "none" THEN st
    ELSE LET r == rename_columns(st, rename_map)
         IN IF r.err = "ColumnNotFound" THEN st ELSE r

\* Mutant of clean_data: missing values are handled before duplicates are
\* removed.
clean_data_missing_first(st, args) ==
    LET s1 == CleanMissing(st, args.drop_na, args.fill_value)
        s2 == CleanDuplicates(s1, args.drop_duplicates)
        s3 == CleanColumns(s2, args.string_lower, "lower")
        s4 == CleanColumns(s3, args.string_upper, "upper")
        s5 == CleanColumns(s4, args.date_columns, "date")
    IN CleanRename(s5, args.rename_map)

\* Mutant of clean_data: the rename comes first and uppercase before lowercase.
clean_data_rename_first(st, args) ==
    LET s1 == CleanRename(st, args.rename_map)
        s2 == CleanDuplicates(s1, args.drop_duplicates)
        s3 == CleanMissing(s2, args.drop_na, args.fill_value)
        s4 == CleanColumns(s3, args.string_upper, "upper")
        s5 == CleanColumns(s4, args.string_lower, "lower")
    IN CleanColumns(s5, args.date_columns, "date")

\* args: [drop_duplicates, drop_na, fill_value, string_lower, string_upper,
\* date_columns, rename_map]; None and the empty list or dict are the empty
\* sequence, fill_value None is Null.
clean_data(st, args) ==
    LET s1 == CleanDuplicates(st, args.drop_duplicates)
        s2 == CleanMissing(s1, args.drop_na, args.fill_value)
        s3 == CleanColumns(s2, args.string_lower, "lower")
        s4 == CleanColumns(s3, args.string_upper, "upper")
        s5 == CleanColumns(s4, args.date_columns, "date")
    IN CleanRename(s5, args.rename_map)

\* ------------------------------------------- data preparation pipelines
\* prepare_customers_data.py, prepare_products_data.py, prepare_sales_data.py

Scripts == {"customers", "products", "sales"}

\* The column each script removes duplicates on.
KeyColumn(script) ==
    CASE script = "customers" -> "CustomerID"
      [] script = "products" -> "ProductID"
      [] OTHER -> "TransactionID"

\* The numeric and the categorical column each script adds when missing.
NumericColumn(script) ==
    CASE script = "customers" -> "LifetimePurchaseAmtUSD"
      [] script = "products" -> "StockQuantity"
      [] OTHER -> "DiscountPercentage"

CategoricalColumn(script) ==
    CASE script = "customers" -> "PreferredContactMethod"
      [] script = "products" -> "Condition"
      [] OTHER -> "PaymentType"

\* The values np.random.choice draws the categorical column from.
Choices(script) ==
    CASE script = "products" ->
             { StrV(<<"N", "e", "w">>), StrV(<<"U", "s", "e", "d">>),
               StrV(<<"C", "l", "e", "a", "r", "a", "n", "c", "e">>),
               StrV(<<"R", "e", "f", "u", "r", "b", "i", "s", "h", "e", "d">>),
               StrV(<<"D", "i", "s", "c", "o", "n", "t", "i", "n", "u", "e", "d">>) }
      [] script = "sales" ->
             { StrV(<<"C", "a", "s", "h">>), StrV(<<"D", "e", "b", "i", "t">>),
               StrV(<<"S", "t", "o", "r", "e", "C", "r", "e", "d", "i", "t">>) }
      [] OTHER ->
             { StrV(<<"C", "a", "l", "l">>), StrV(<<"S", "M", "S">>),
               StrV(<<"E", "m", "a", "i", "l">>), StrV(<<"N", "o", "n", "e">>) }

Unknown == StrV(<<"U", "n", "k", "n", "o", "w", "n">>)

\* The outcome of one function of a script: the value it returns, the object
\* it was handed as that object is afterwards, and the exception it raised.
Returned(ret, arg) == [ret |-> ret, arg |-> arg, err |-> "none"]

Raised(arg, e) == [ret |-> arg, arg |-> arg, err |-> e]

\* DataFrame.reset_index(drop=True): the index becomes 0..n-1.
ResetIndex(t) ==
    Table(t.names, t.dtypes, [r \in 1..NRows(t) |-> Row(r - 1, t.rows[r].cells)])

\* DataFrame.drop_duplicates(subset=label): keep="first", rows compared on the
\* columns carrying the label; an empty frame is returned as it is.
DropDuplicatesSubset(t, label) ==
    TakeRows(t, [r \in 1..NRows(t) |->
                    \/ IsEmptyFrame(t)
                    \/ ~\E q \in 1..(r - 1) :
                          \A p \in Positions(t, label) :
                              CellEq(t.rows[q].cells[p], t.rows[r].cells[p])])

\* prepare_customers_data.remove_duplicates:
\* df.drop_duplicates(subset=[CustomerID]).reset_index(drop=True)
\* CustomerID is a bare name that the module never binds: evaluating the
\* argument list raises NameError before drop_duplicates is called.
customers_remove_duplicates(df_in) == Raised(df_in, "NameError")

\* Mutant of remove_duplicates_on: the subset argument is missing, whole rows
\* are compared also when the key column exists.
remove_duplicates_on_whole_rows(df_in, key) ==
    Returned(ResetIndex(DropDuplicates(df_in)), df_in)

\* The body shared by prepare_products_data.remove_duplicates and
\* prepare_sales_data.remove_duplicates: on the key column when it exists,
\* on whole rows otherwise; a new frame is returned, df is not touched.
remove_duplicates_on(df_in, key) ==
    IF HasColumn(df_in, key)
    THEN Returned(ResetIndex(DropDuplicatesSubset(df_in, key)), df_in)
    ELSE Returned(ResetIndex(DropDuplicates(df_in)), df_in)

products_remove_duplicates(df_in) == remove_duplicates_on(df_in, "ProductID")

sales_remove_duplicates(df_in) == remove_duplicates_on(df_in, "TransactionID")

\* df[label] = 0.0 when the column is missing.
AddNumericColumn(t, label) ==
    IF HasColumn(t, label) THEN t
    ELSE AppendColumn(t, label, [r \in 1..NRows(t) |-> FloatV(0)], "float64")

\* add_customer_columns: numpy is used as np but never imported, so adding
\* PreferredContactMethod raises NameError after the numeric column was added.
add_customer_columns(df_in) ==
    LET t == AddNumericColumn(df_in, "LifetimePurchaseAmtUSD")
    IN IF HasColumn(t, "PreferredContactMethod") THEN Returned(t, t)
       ELSE Raised(t, "NameError")

\* add_product_columns and add_sales_columns: df is changed in place and
\* returned; choice is the array np.random.choice produced.
add_columns_with_choice(df_in, script, choice) ==
    LET t == AddNumericColumn(df_in, NumericColumn(script))
        u == IF HasColumn(t, CategoricalColumn(script)) THEN t
             ELSE AppendColumn(t, CategoricalColumn(script), choice, "object")
    IN Returned(u, u)

add_product_columns(df_in, choice) == add_columns_with_choice(df_in, "products", choice)

add_sales_columns(df_in, choice) == add_columns_with_choice(df_in, "sales", choice)

\* fillna(value) on the columns at the listed positions.
FillColumns(t, ps, value) ==
    Table(t.names,
          [p \in 1..NCols(t) |->
              IF p \in ps /\ ColumnHasNull(t, p) THEN FillDtype(t.dtypes[p], value)
              ELSE t.dtypes[p]],
          [r \in 1..NRows(t) |->
              Row(t.rows[r].idx,
                  [p \in 1..NCols(t) |->
                      IF p \in ps /\ IsNull(t.rows[r].cells[p])
                      THEN FillCell(t.dtypes[p], value)
                      ELSE t.rows[r].cells[p]])])

\* prepare_customers_data.handle_missing_values and remove_outliers only log.
customers_handle_missing_values(df_in) == Returned(df_in, df_in)

customers_remove_outliers(df_in) == Returned(df_in, df_in)

\* prepare_products_data.handle_missing_values:
\* df["StockQuantity"].fillna(0, inplace=True), df["Condition"].fillna("Unknown", inplace=True).
\* Whether filling the selected column in place reaches df depends on the
\* pandas build (copy-on-write or not): in_place tells which.
products_handle_missing_values(df_in, in_place) ==
    LET t == FillColumns(df_in, Positions(df_in, "StockQuantity"), IntV(0))
        u == FillColumns(t, Positions(t, "Condition"), Unknown)
    IN IF in_place THEN Returned(u, u) ELSE Returned(df_in, df_in)

\* prepare_sales_data.handle_missing_values: the numeric columns are filled
\* with 0, then the object columns with "Unknown".
sales_handle_missing_values(df_in) ==
    LET t == FillColumns(df_in,
                         {p \in 1..NCols(df_in) : df_in.dtypes[p] \in {"int64", "float64"}},
                         IntV(0))
        u == FillColumns(t, {p \in 1..NCols(t) : t.dtypes[p] = "object"}, Unknown)
    IN Returned(u, u)

\* remove_outliers of the products and the sales script:
\* if "StockQuantity" in df.columns: df = df[df["StockQuantity"] >= 0]
stock_remove_outliers(df_in) ==
    LET ps == PositionsFrom(df_in, "StockQuantity", 1)
    IN IF ps = <<>> THEN Returned(df_in, df_in)
       ELSE IF ~Comparable(df_in, ps[1]) THEN Raised(df_in, "TypeError")
       ELSE Returned(TakeRows(df_in, [r \in 1..NRows(df_in) |->
                         LET v == df_in.rows[r].cells[ps[1]]
                         IN IsNum(v) /\ v.n >= 0]),
                     df_in)

\* save_prepared_data: df.to_csv(file_path, index=False) writes the header
\* and the cells, not the index.
save_prepared_data(df_in) ==
    [names |-> df_in.names, rows |-> [r \in 1..NRows(df_in) |-> df_in.rows[r].cells]]

\* ------------------------------------------------------------------ inputs

\* Labels named in calls: "A" and "B" are columns of the input table, "C" is not.
ArgNames == {"A", "B", "C"}

\* Column lists passed to drop_columns and reorder_columns: one label, two
\* labels in either order, an absent label alone or beside a present one, a
\* repeated label, every column, none.
ColumnLists ==
    { <<>>, <<"A">>, <<"B">>, <<"C">>, <<"A", "B">>, <<"B", "A">>,
      <<"A", "C">>, <<"C", "A">>, <<"A", "A">> }

\* Dicts passed to rename_columns: a fresh name, the name of another column,
\* a swap, two old names onto one new name, an absent old name alone or
\* beside a present one, the empty dict.
RenameMaps ==
    { <<>>,
      [x \in {"A"} |-> "C"],
      [x \in {"A"} |-> "B"],
      [x \in {"A", "B"} |-> IF x = "A" THEN "B" ELSE "A"],
      [x \in {"A", "B"} |-> "C"],
      [x \in {"C"} |-> "A"],
      [x \in {"A", "C"} |-> IF x = "A" THEN "C" ELSE "B"] }

BoundValues == {1, 2}

NewTypes == {"int", "str"}

\* fill_value: None, a number, the falsy number 0, a string.
FillValues == {Null, IntV(2), IntV(0), StrV(<<"a">>)}

\* Rows of the input file: column A holds numbers, column B strings, either
\* may be missing.
RowPool ==
    { <<IntV(1), Null>>,
      <<IntV(2), StrV(<<" ", "A">>)>>,
      <<Null, StrV(<<" ", "A">>)>> }

\* pd.read_csv: a numeric column with a missing value is float64, without
\* one int64; a string column is object; the index is 0..n-1.
ReadCsv(cells) ==
    LET n == Len(cells)
        aNull == \E r \in 1..n : IsNull(cells[r][1])
    IN Table(<<"A", "B">>,
             <<IF n = 0 THEN "object" ELSE IF aNull THEN "float64" ELSE "int64", "object">>,
             [r \in 1..n |->
                 Row(r - 1,
                     <<IF aNull /\ IsNum(cells[r][1]) THEN FloatV(cells[r][1].n)
                       ELSE cells[r][1],
                       cells[r][2]>>)])

InputTables == {ReadCsv(cells) : cells \in UNION {[1..n -> RowPool] : n \in 0..MaxRows}}

\* clean_data's defaults: drop_duplicates=True, everything else off.
CleanDefaults ==
    [drop_duplicates |-> TRUE, drop_na |-> FALSE, fill_value |-> Null,
     string_lower |-> <<>>, string_upper |-> <<>>, date_columns |-> <<>>,
     rename_map |-> <<>>]

\* Argument records of clean_data.
CleanArgs ==
    { CleanDefaults,
      [CleanDefaults EXCEPT !.drop_duplicates = FALSE],
      [CleanDefaults EXCEPT !.fill_value = IntV(2)],
      [CleanDefaults EXCEPT !.drop_duplicates = FALSE, !.fill_value = StrV(<<"a">>)],
      [CleanDefaults EXCEPT !.drop_na = TRUE, !.fill_value = IntV(2)],
      [CleanDefaults EXCEPT !.string_lower = <<"B", "C">>],
      [CleanDefaults EXCEPT !.string_upper = <<"C", "B">>],
      [CleanDefaults EXCEPT !.string_lower = <<"B">>, !.string_upper = <<"B">>],
      [CleanDefaults EXCEPT !.date_columns = <<"A", "C">>],
      [CleanDefaults EXCEPT !.drop_duplicates = FALSE, !.string_lower = <<"A">>],
      [CleanDefaults EXCEPT !.rename_map = [x \in {"A"} |-> "C"]],
      [CleanDefaults EXCEPT !.rename_map = [x \in {"A"} |-> "B"]],
      [CleanDefaults EXCEPT !.fill_value = IntV(2),
                            !.rename_map = [x \in {"A", "C"} |-> IF x = "A" THEN "C" ELSE "B"]],
      [CleanDefaults EXCEPT !.string_lower = <<"B">>,
                            !.rename_map = [x \in {"B"} |-> "C"]] }

\* ------------------------------------------------------------------- state

VARIABLES
    heap,       \* the two DataFrame objects: "caller" and "own"
    selfRef,    \* the object self.df refers to
    last,       \* the last call: method, receiver, exception that escaped
    returned,   \* the type of the value the last call returned ("none": it raised)
    before,     \* the scrubber's table as the last call found it
    result,     \* the dict the last call returned, in a sequence; <<>> for any other value
    ncalls,     \* calls made so far
    pipe        \* a run of main() of one data preparation script

vars == <<heap, selfRef, last, returned, before, result, ncalls, pipe>>

EmptyFrame == Table(<<>>, <<>>, <<>>)

\* No script is running.
PipeIdle ==
    [script |-> "none", pc |-> "idle", last |-> "none", df |-> EmptyFrame,
     before |-> EmptyFrame, arg |-> EmptyFrame, err |-> "none", saved |-> <<>>]

\* The scrubber's owned table.
df == heap[selfRef]

\* The caller's table.
original == heap["caller"]

Init ==
    \E t \in InputTables :
        LET made == DataScrubberInit([caller |-> t, own |-> t])
        IN /\ heap = made.heap
           /\ selfRef = made.ref
           /\ last = [op |-> "__init__", via |-> "scrubber", args |-> <<>>, err |-> "none"]
           /\ returned = "DataScrubber"
           /\ before = t
           /\ result = <<>>
           /\ ncalls = 0
           /\ pipe = PipeIdle

\* The type of the value a method returns.
ReturnType(op) ==
    CASE op \in {"check_data_consistency_before_cleaning",
                 "check_data_consistency_after_cleaning"} -> "dict"
      [] op = "inspect_data" -> "tuple"
      [] OTHER -> "DataFrame"

\* The dict a consistency check returns, computed from self.df.
ReturnValue(op, st) ==
    IF st.err = "none" /\ ReturnType(op) = "dict"
    THEN <<ConsistencySnapshot(Cur(st))>>
    ELSE <<>>

\* One call of a method on the scrubber with arguments args, st its outcome.
Call(op, args, st) ==
    /\ ncalls < MaxCalls
    /\ heap' = st.heap
    /\ selfRef' = st.ref
    /\ last' = [op |-> op, via |-> "scrubber", args |-> args, err |-> st.err]
    /\ returned' = IF st.err = "none" THEN ReturnType(op) ELSE "none"
    /\ before' = heap[selfRef]
    /\ result' = ReturnValue(op, st)
    /\ ncalls' = ncalls + 1
    /\ UNCHANGED pipe

Now == [heap |-> heap, ref |-> selfRef, err |-> "none"]

ConvertColumnToNewDataType ==
    \E column \in ArgNames, new_type \in NewTypes :
        Call("convert_column_to_new_data_type", <<column, new_type>>,
             convert_column_to_new_data_type(Now, column, new_type))

DropColumns ==
    \E columns \in ColumnLists : Call("drop_columns", columns, drop_columns(Now, columns))

FilterColumnOutliers ==
    \E column \in ArgNames, lower_bound \in BoundValues, upper_bound \in BoundValues :
        Call("filter_column_outliers", <<column, lower_bound, upper_bound>>,
             filter_column_outliers(Now, column, lower_bound, upper_bound))

FormatColumnStringsToLowerAndTrim ==
    \E column \in ArgNames :
        Call("format_column_strings_to_lower_and_trim", column,
             format_column_strings_to_lower_and_trim(Now, column))

FormatColumnStringsToUpperAndTrim ==
    \E column \in ArgNames :
        Call("format_column_strings_to_upper_and_trim", column,
             format_column_strings_to_upper_and_trim(Now, column))

CleanData == \E args \in CleanArgs : Call("clean_data", args, clean_data(Now, args))

HandleMissingData ==
    \E drop \in BOOLEAN, fill_value \in FillValues :
        Call("handle_missing_data", <<drop, fill_value>>, handle_missing_data(Now, drop, fill_value))

InspectData == Call("inspect_data", <<>>, inspect_data(Now))

ParseDatesToAddStandardDatetime ==
    \E column \in ArgNames :
        Call("parse_dates_to_add_standard_datetime", column,
             parse_dates_to_add_standard_datetime(Now, column))

RemoveDuplicateRecords ==
    Call("remove_duplicate_records", <<>>, remove_duplicate_records(Now))

RenameColumns ==
    \E column_mapping \in RenameMaps :
        Call("rename_columns", column_mapping, rename_columns(Now, column_mapping))

ReorderColumns ==
    \E columns \in ColumnLists : Call("reorder_columns", columns, reorder_columns(Now, columns))

CheckDataConsistencyBeforeCleaning ==
    Call("check_data_consistency_before_cleaning", <<>>,
         check_data_consistency_before_cleaning(Now))

CheckDataConsistencyAfterCleaning ==
    Call("check_data_consistency_after_cleaning", <<>>,
         check_data_consistency_after_cleaning(Now))

\* The methods a value of each type offers under the scrubber's method names:
\* a DataFrame, a dict and a tuple have none of them.
HasMethod(type, op) == type = "DataScrubber"

\* The docstring's chain, scrubber.<method>(...).handle_missing_data(fill_value=v):
\* handle_missing_data is looked up on the value the previous call returned.
ChainedHandleMissingData ==
    /\ ncalls < MaxCalls
    /\ ncalls > 0
    /\ returned # "none"
    /\ \E fill_value \in FillValues \ {Null} :
          LET st == IF HasMethod(returned, "handle_missing_data")
                    THEN handle_missing_data(Now, FALSE, fill_value)
                    ELSE [Now EXCEPT !.err = "AttributeError"]
          IN /\ heap' = st.heap
             /\ selfRef' = st.ref
             /\ last' = [op |-> "handle_missing_data", via |-> last.op,
                         args |-> <<FALSE, fill_value>>, err |-> st.err]
             /\ returned' = IF st.err = "none" THEN "DataFrame" ELSE "none"
             /\ before' = heap[selfRef]
             /\ result' = <<>>
             /\ ncalls' = ncalls + 1
             /\ UNCHANGED pipe

\* The caller goes on using the table it passed in: df["A"] = 9 on its own
\* object (every column labelled A is overwritten, or A is added).
CallerAssign(t) ==
    LET ps == PositionsFrom(t, "A", 1)
        nines == [r \in 1..NRows(t) |-> IntV(9)]
    IN IF ps = <<>> THEN AppendColumn(t, "A", nines, "int64")
       ELSE CastColumns(CastColumns(t, ps, "str"), ps, "int")

CallerMutatesOriginal ==
    /\ ncalls < MaxCalls
    /\ heap' = [heap EXCEPT !["caller"] = CallerAssign(heap["caller"])]
    /\ UNCHANGED selfRef
    /\ last' = [op |-> "caller_assign", via |-> "caller", args |-> <<>>, err |-> "none"]
    /\ returned' = "none"
    /\ before' = heap[selfRef]
    /\ result' = <<>>
    /\ ncalls' = ncalls + 1
    /\ UNCHANGED pipe

Next ==
    \/ ConvertColumnToNewDataType
    \/ DropColumns
    \/ FilterColumnOutliers
    \/ FormatColumnStringsToLowerAndTrim
    \/ FormatColumnStringsToUpperAndTrim
    \/ CleanData
    \/ HandleMissingData
    \/ InspectData
    \/ ParseDatesToAddStandardDatetime
    \/ RemoveDuplicateRecords
    \/ RenameColumns
    \/ ReorderColumns
    \/ CheckDataConsistencyBeforeCleaning
    \/ CheckDataConsistencyAfterCleaning
    \/ ChainedHandleMissingData
    \/ CallerMutatesOriginal

Spec == Init /\ [][Next]_vars

\* ------------------------------------------------------- pipeline runs

\* Rows of a raw file: key, another column, the numeric and the categorical
\* column a script adds when missing.  Two rows share a key and differ
\* elsewhere; a key, a quantity and a category may be missing; a quantity
\* may be negative.
PipelineRowPool ==
    { <<IntV(1), StrV(<<" ", "A">>), IntV(1), StrV(<<"a">>)>>,
      <<IntV(1), Null, Null, Null>>,
      <<Null, StrV(<<" ", "A">>), IntV(-1), StrV(<<"a">>)>> }

\* pd.read_csv on the listed columns of the rows: a column of numbers is
\* int64, float64 when a value is missing; any other column is object.
PipelineReadCsv(names, cols, cells) ==
    LET n == Len(cells)
        numeric(c) == \A r \in 1..n : IsNull(cells[r][c]) \/ IsNum(cells[r][c])
        hasNull(c) == \E r \in 1..n : IsNull(cells[r][c])
        dtype(c) == IF n = 0 \/ ~numeric(c) THEN "object"
                    ELSE IF hasNull(c) THEN "float64" ELSE "int64"
    IN Table(names,
             [i \in 1..Len(cols) |-> dtype(cols[i])],
             [r \in 1..n |->
                 Row(r - 1,
                     [i \in 1..Len(cols) |->
                         LET v == cells[r][cols[i]]
                         IN IF dtype(cols[i]) = "float64" /\ IsNum(v) THEN FloatV(v.n) ELSE v])])

\* The frames main() holds after read_raw_data and the clean-up of the column
\* names: the key column is there or not (its values are then under "A"),
\* the two optional columns are there or not; a file that could not be read
\* gives the frame without rows and columns.
PipelineTables(script) ==
    {EmptyFrame} \cup
    { PipelineReadCsv(
          <<IF hasKey THEN KeyColumn(script) ELSE "A", "B">>
              \o (IF hasOptional THEN <<NumericColumn(script), CategoricalColumn(script)>>
                  ELSE <<>>),
          IF hasOptional THEN <<1, 2, 3, 4>> ELSE <<1, 2>>,
          cells) :
        hasKey \in BOOLEAN, hasOptional \in BOOLEAN,
        cells \in UNION {[1..n -> PipelineRowPool] : n \in 0..MaxPipelineRows} }

\* main() up to "df.columns = df.columns.str.strip()".
PipelineInit ==
    /\ heap = [caller |-> EmptyFrame, own |-> EmptyFrame]
    /\ selfRef = "own"
    /\ last = [op |-> "__init__", via |-> "scrubber", args |-> <<>>, err |-> "none"]
    /\ returned = "DataScrubber"
    /\ before = EmptyFrame
    /\ result = <<>>
    /\ ncalls = 0
    /\ \E script \in Scripts : \E t \in PipelineTables(script) :
          pipe = [PipeIdle EXCEPT !.script = script, !.pc = "add_columns", !.df = t]

\* The statement of main() after step; an exception ends main().
NextStep(step) ==
    CASE step = "add_columns" -> "remove_duplicates"
      [] step = "remove_duplicates" -> "handle_missing_values"
      [] step = "handle_missing_values" -> "remove_outliers"
      [] step = "remove_outliers" -> "save_prepared_data"
      [] OTHER -> "finished"

\* "df = f(df)" in main(), out the outcome of f.
Step(step, out) ==
    /\ pipe.pc = step
    /\ pipe' = [pipe EXCEPT !.pc = IF out.err = "none" THEN NextStep(step) ELSE "failed",
                            !.last = step,
                            !.before = pipe.df,
                            !.df = IF out.err = "none" THEN out.ret ELSE out.arg,
                            !.arg = out.arg,
                            !.err = out.err]
    /\ UNCHANGED <<heap, selfRef, last, returned, before, result, ncalls>>

AddColumns ==
    \/ /\ pipe.script = "customers"
       /\ Step("add_columns", add_customer_columns(pipe.df))
    \/ /\ pipe.script = "products"
       /\ \E choice \in [1..NRows(pipe.df) -> Choices("products")] :
             Step("add_columns", add_product_columns(pipe.df, choice))
    \/ /\ pipe.script = "sales"
       /\ \E choice \in [1..NRows(pipe.df) -> Choices("sales")] :
             Step("add_columns", add_sales_columns(pipe.df, choice))

RemoveDuplicates ==
    Step("remove_duplicates",
         CASE pipe.script = "customers" -> customers_remove_duplicates(pipe.df)
           [] pipe.script = "products" -> products_remove_duplicates(pipe.df)
           [] OTHER -> sales_remove_duplicates(pipe.df))

\* in_place: whether the build's fillna(inplace=True) on a selected column
\* writes through to the frame (it matters to the products script only).
HandleMissingValues ==
    \E in_place \in BOOLEAN :
        Step("handle_missing_values",
             CASE pipe.script = "customers" -> customers_handle_missing_values(pipe.df)
               [] pipe.script = "products" -> products_handle_missing_values(pipe.df, in_place)
               [] OTHER -> sales_handle_missing_values(pipe.df))

RemoveOutliers ==
    Step("remove_outliers",
         IF pipe.script = "customers" THEN customers_remove_outliers(pipe.df)
         ELSE stock_remove_outliers(pipe.df))

SavePreparedData ==
    /\ pipe.pc = "save_prepared_data"
    /\ pipe' = [pipe EXCEPT !.pc = "finished", !.last = "save_prepared_data",
                            !.before = pipe.df, !.arg = pipe.df,
                            !.saved = <<save_prepared_data(pipe.df)>>]
    /\ UNCHANGED <<heap, selfRef, last, returned, before, result, ncalls>>

PipelineNext ==
    \/ AddColumns
    \/ RemoveDuplicates
    \/ HandleMissingValues
    \/ RemoveOutliers
    \/ SavePreparedData

PipelineSpec == PipelineInit /\ [][PipelineNext]_vars

\* ------------------------------------------------------------------ claims

\* C1: the scrubber owns an independent deep copy: no call on the scrubber
\* changes the caller's table, and no change the caller makes to its table
\* changes the scrubber's table.
C1_NoAliasing ==
    [][/\ (last'.via # "caller") => (heap'["caller"] = heap["caller"])
       /\ (last'.via = "caller") => (heap'[selfRef'] = heap[selfRef])]_vars

\* The caller has overwritten its table after a scrubber call changed the
\* scrubber's, and the two tables differ.
C1_Witness ==
    /\ last.via = "caller"
    /\ df \notin InputTables
    /\ original \notin InputTables
    /\ df # original

CleaningOps ==
    {"convert_column_to_new_data_type", "drop_columns", "filter_column_outliers",
     "format_column_strings_to_lower_and_trim", "format_column_strings_to_upper_and_trim",
     "clean_data", "handle_missing_data", "parse_dates_to_add_standard_datetime",
     "remove_duplicate_records", "rename_columns", "reorder_columns"}

\* C2: every cleaning operation returns a handle that offers the scrubber's
\* operations, and remove_duplicate_records().handle_missing_data(fill_value=v)
\* runs handle_missing_data on the scrubber's table.
C2_ChainingValid ==
    /\ (last.via = "scrubber" /\ last.op \in CleaningOps /\ last.err = "none")
          => HasMethod(returned, "handle_missing_data")
    /\ (last.op = "handle_missing_data" /\ last.via = "remove_duplicate_records")
          => (last.err = "none" /\ df = FillNa(before, last.args[2]))

\* u is t restricted to the column positions in kept, left to right, with
\* every row, index label and cell of those columns as in t.
IsProjection(t, u, kept) ==
    /\ NCols(u) = Cardinality(kept)
    /\ NRows(u) = NRows(t)
    /\ \A r \in 1..NRows(t) : u.rows[r].idx = t.rows[r].idx
    /\ \A p \in kept :
          LET q == Cardinality({x \in kept : x <= p})
          IN /\ u.names[q] = t.names[p]
             /\ u.dtypes[q] = t.dtypes[p]
             /\ \A r \in 1..NRows(t) : u.rows[r].cells[q] = t.rows[r].cells[p]

\* C3: drop_columns is all-or-nothing: with a named column absent it raises
\* column-not-found and the table is as before; with all present, exactly the
\* named columns are gone and the others keep their order and values.
C3_DropColumnsAllOrNothing ==
    last.op = "drop_columns" =>
        IF \E i \in 1..Len(last.args) : last.args[i] \notin Labels(before)
        THEN last.err = "ColumnNotFound" /\ df = before
        ELSE /\ last.err = "none"
             /\ IsProjection(before, df,
                             {p \in 1..NCols(before) : before.names[p] \notin Range(last.args)})

\* drop_columns failed on a list that names a present column beside an absent one.
C3_Witness ==
    /\ last.op = "drop_columns"
    /\ last.err = "ColumnNotFound"
    /\ \E i \in 1..Len(last.args) : last.args[i] \in Labels(before)

\* C4: rename_columns with an absent old name raises column-not-found and
\* renames nothing, also not the old names that are present.
C4_RenameAtomic ==
    (/\ last.op = "rename_columns"
     /\ \E old_name \in DOMAIN last.args : old_name \notin Labels(before))
        => (last.err = "ColumnNotFound" /\ df = before)

\* rename_columns failed on a dict with a present old name beside an absent one.
C4_Witness ==
    /\ last.op = "rename_columns"
    /\ last.err = "ColumnNotFound"
    /\ \E old_name \in DOMAIN last.args :
          old_name \in Labels(before) /\ last.args[old_name] # old_name

\* C5: the column names of the scrubber's table are unique in every reachable
\* state; a rename that would make two names equal fails.
C5_UniqueColumnNames ==
    /\ UniqueLabels(df)
    /\ (last.op = "rename_columns" /\ UniqueLabels(before) /\ ~UniqueLabels(df))
          => last.err # "none"

Injective(mapping) ==
    \A a, b \in DOMAIN mapping : mapping[a] = mapping[b] => a = b

InverseMapping(mapping) ==
    [new_name \in {mapping[a] : a \in DOMAIN mapping} |->
        CHOOSE a \in DOMAIN mapping : mapping[a] = new_name]

\* C6: after any successful rename_columns(mapping), rename_columns with the
\* inverse mapping restores the original sequence of column names, and the
\* columns the mapping does not mention keep name and position throughout.
C6_RenameRoundTrip ==
    (last.op = "rename_columns" /\ last.err = "none" /\ Injective(last.args)) =>
        LET back == rename_columns(Now, InverseMapping(last.args))
        IN /\ back.err = "none"
           /\ Cur(back).names = before.names
           /\ \A p \in 1..NCols(before) :
                 before.names[p] \notin DOMAIN last.args => df.names[p] = before.names[p]

\* C7: reorder_columns(order) with every named column present leaves exactly
\* the columns of order, in that order, with the rows and their values in
\* those columns unchanged.
C7_ReorderExact ==
    (/\ last.op = "reorder_columns"
     /\ \A i \in 1..Len(last.args) : last.args[i] \in Labels(before))
        => /\ last.err = "none"
           /\ df.names = last.args
           /\ NRows(df) = NRows(before)
           /\ \A r \in 1..NRows(before) :
                 /\ df.rows[r].idx = before.rows[r].idx
                 /\ \A i \in 1..Len(last.args) :
                       \E p \in Positions(before, last.args[i]) :
                           df.rows[r].cells[i] = before.rows[r].cells[p]

\* C8: after filter_column_outliers(column, lo, hi) the table holds exactly
\* the input rows whose value in column is non-null and within [lo, hi], both
\* ends included, in their original order.
C8_FilterExact ==
    (last.op = "filter_column_outliers" /\ last.err = "none") =>
        /\ df.names = before.names
        /\ df.rows = FilterRowsFrom(
               before.rows,
               [r \in 1..NRows(before) |->
                   \A p \in Positions(before, last.args[1]) :
                       InBounds(before.rows[r].cells[p], last.args[2], last.args[3])],
               1)

\* Row r of t has no earlier row equal to it in every column.
FirstOccurrence(t, r) ==
    ~\E q \in 1..(r - 1) :
        \A c \in 1..NCols(t) : CellEq(t.rows[q].cells[c], t.rows[r].cells[c])

\* u holds exactly the rows of t that satisfy keep, in t's order.
IsRowSelection(t, u, keep) ==
    /\ u.names = t.names
    /\ u.dtypes = t.dtypes
    /\ \A r \in 1..NRows(t) : keep[r] <=> (\E q \in 1..NRows(u) : u.rows[q] = t.rows[r])
    /\ \A q \in 1..NRows(u) : \E r \in 1..NRows(t) : u.rows[q] = t.rows[r]
    /\ \A q \in 1..(NRows(u) - 1) : u.rows[q].idx < u.rows[q + 1].idx

\* C9 as stated: remove_duplicate_records removes exactly the rows equal in
\* every column to an earlier row, keeps the first occurrences in order and
\* leaves the columns alone.
C9_DedupExact ==
    last.op = "remove_duplicate_records" =>
        LET keep == [r \in 1..NRows(before) |-> FirstOccurrence(before, r)]
        IN last.err = "none" /\ IsRowSelection(before, df, keep)

\* C9 amended: the same for a table with at least one column; a table with
\* no columns is left as it is, with all its rows.
C9_DedupExactWithColumns ==
    last.op = "remove_duplicate_records" =>
        LET keep == [r \in 1..NRows(before) |-> FirstOccurrence(before, r)]
        IN /\ last.err = "none"
           /\ IF NCols(before) = 0 THEN df = before
              ELSE IsRowSelection(before, df, keep)

\* remove_duplicate_records dropped a later copy of a row of a table with columns.
C9_Witness ==
    /\ last.op = "remove_duplicate_records"
    /\ NCols(before) > 0
    /\ \E r \in 2..NRows(before) :
          /\ ~FirstOccurrence(before, r)
          /\ \A q \in 1..NRows(df) : df.rows[q].idx # before.rows[r].idx

\* C10: remove_duplicate_records is idempotent: a second application leaves
\* the table the first one produced.
C10_DedupIdempotent ==
    last.op = "remove_duplicate_records" =>
        LET again == remove_duplicate_records(Now)
        IN again.err = "none" /\ Cur(again) = df

\* The first application changed the table.
C10_Witness ==
    /\ last.op = "remove_duplicate_records"
    /\ last.err = "none"
    /\ df # before

\* C11: handle_missing_data(drop, fill_value): with drop set exactly the rows
\* holding a null are removed and no cell is filled; otherwise with a
\* fill_value (0 included) every null becomes that value and no row is
\* removed; with neither the table is unchanged.
C11_HandleMissingThreeWay ==
    (last.op = "handle_missing_data" /\ last.via = "scrubber") =>
        LET drop == last.args[1]
            fill_value == last.args[2]
            keep == [r \in 1..NRows(before) |-> ~RowHasNull(before.rows[r])]
        IN /\ last.err = "none"
           /\ IF drop
              THEN /\ IsRowSelection(before, df, keep)
                   /\ \A r \in 1..NRows(df) : ~RowHasNull(df.rows[r])
              ELSE IF fill_value # Null
              THEN /\ df.names = before.names
                   /\ NRows(df) = NRows(before)
                   /\ \A r \in 1..NRows(before) :
                         /\ df.rows[r].idx = before.rows[r].idx
                         /\ \A p \in 1..NCols(before) :
                               IF IsNull(before.rows[r].cells[p])
                               THEN /\ ~IsNull(df.rows[r].cells[p])
                                    /\ CellEq(df.rows[r].cells[p], fill_value)
                               ELSE df.rows[r].cells[p] = before.rows[r].cells[p]
              ELSE df = before

\* handle_missing_data(fill_value=0) filled a null.
C11_Witness ==
    /\ last.op = "handle_missing_data"
    /\ last.via = "scrubber"
    /\ last.args = <<FALSE, IntV(0)>>
    /\ \E r \in 1..NRows(before) : RowHasNull(before.rows[r])
    /\ df # before

HasNullEntry(t) == \E r \in 1..NRows(t) : RowHasNull(t.rows[r])

\* Two rows of t are equal in every column.
HasDuplicateRow(t) ==
    \E q, r \in 1..NRows(t) :
        q # r /\ \A c \in 1..NCols(t) : CellEq(t.rows[q].cells[c], t.rows[r].cells[c])

\* The returned snapshot reports no null in any column and no duplicate row.
IsCleanSnapshot(t, value) ==
    /\ Len(value) = 1
    /\ value[1].null_counts = [p \in 1..NCols(t) |-> 0]
    /\ value[1].duplicate_count = 0

\* C12 as stated: check_data_consistency_after_cleaning raises the assertion
\* error exactly when the table has a null entry or a duplicate row,
\* otherwise returns the all-zero snapshot; the table is unchanged either way.
C12_AssertCleanExact ==
    last.op = "check_data_consistency_after_cleaning" =>
        /\ df = before
        /\ IF HasNullEntry(before) \/ HasDuplicateRow(before)
           THEN last.err = "AssertionError" /\ result = <<>>
           ELSE last.err = "none" /\ IsCleanSnapshot(before, result)

\* C12 amended: the duplicate rows of a table without columns do not count;
\* such a table passes whatever its number of rows.
C12_AssertCleanExactWithColumns ==
    last.op = "check_data_consistency_after_cleaning" =>
        /\ df = before
        /\ IF HasNullEntry(before) \/ (NCols(before) > 0 /\ HasDuplicateRow(before))
           THEN last.err = "AssertionError" /\ result = <<>>
           ELSE last.err = "none" /\ IsCleanSnapshot(before, result)

\* The check failed on a table that has duplicate rows and no null.
C12_Witness ==
    /\ last.op = "check_data_consistency_after_cleaning"
    /\ last.err = "AssertionError"
    /\ ~HasNullEntry(before)
    /\ HasDuplicateRow(before)

\* The number of null cells at column position p of t.
NullsInColumn(t, p) == Cardinality({r \in 1..NRows(t) : IsNull(t.rows[r].cells[p])})

\* C13 as stated: check_data_consistency_before_cleaning leaves the table
\* alone and returns the number of nulls of each column and the number of
\* rows that are equal in every column to another row of the table.
C13_SnapshotExact ==
    last.op = "check_data_consistency_before_cleaning" =>
        /\ df = before
        /\ last.err = "none"
        /\ Len(result) = 1
        /\ result[1].null_counts = [p \in 1..NCols(before) |-> NullsInColumn(before, p)]
        /\ result[1].duplicate_count =
              Cardinality({r \in 1..NRows(before) :
                  \E q \in 1..NRows(before) :
                      /\ q # r
                      /\ \A c \in 1..NCols(before) :
                            CellEq(before.rows[q].cells[c], before.rows[r].cells[c])})

\* C13 amended: the duplicate count is the number of rows equal in every
\* column to an earlier row, the first occurrence not counted, and it is
\* zero for a table without columns.
C13_SnapshotCountsRepeats ==
    last.op = "check_data_consistency_before_cleaning" =>
        /\ df = before
        /\ last.err = "none"
        /\ Len(result) = 1
        /\ result[1].null_counts = [p \in 1..NCols(before) |-> NullsInColumn(before, p)]
        /\ result[1].duplicate_count =
              IF NCols(before) = 0 THEN 0
              ELSE Cardinality({r \in 1..NRows(before) : ~FirstOccurrence(before, r)})

\* The snapshot of a table with a repeated row that holds a null.
C13_Witness ==
    /\ last.op = "check_data_consistency_before_cleaning"
    /\ Len(result) = 1
    /\ result[1].duplicate_count >= 1
    /\ \E p \in 1..NCols(before) : result[1].null_counts[p] >= 2

\* The columns a standalone call names.
NamedColumns(op, args) ==
    CASE op \in {"convert_column_to_new_data_type", "filter_column_outliers"} -> {args[1]}
      [] op \in {"format_column_strings_to_lower_and_trim",
                 "format_column_strings_to_upper_and_trim",
                 "parse_dates_to_add_standard_datetime"} -> {args}
      [] op \in {"drop_columns", "reorder_columns"} -> Range(args)
      [] op = "rename_columns" -> DOMAIN args
      [] OTHER -> {}

\* C14: a standalone operation that names a column absent from the table
\* raises column-not-found and leaves the table unchanged.
C14_AbsentColumnFails ==
    (/\ last.via = "scrubber"
     /\ \E c \in NamedColumns(last.op, last.args) : c \notin Labels(before))
        => (last.err = "ColumnNotFound" /\ df = before)

\* format_column_strings_to_lower_and_trim was called with an absent column
\* on a table that has rows and columns.
C14_Witness ==
    /\ last.op = "format_column_strings_to_lower_and_trim"
    /\ last.args \notin Labels(before)
    /\ last.err = "ColumnNotFound"
    /\ NCols(before) > 0
    /\ NRows(before) > 0

IsUpperColumn(t, p) ==
    \A r \in 1..NRows(t) :
        t.rows[r].cells[p].k = "str" /\ str_upper(t.rows[r].cells[p].s) = t.rows[r].cells[p].s

IsLowerColumn(t, p) ==
    \A r \in 1..NRows(t) :
        t.rows[r].cells[p].k = "str" /\ str_lower(t.rows[r].cells[p].s) = t.rows[r].cells[p].s

ListedColumns(a) ==
    Range(a.string_lower) \cup Range(a.string_upper) \cup Range(a.date_columns)

\* C17: in clean_data a listed column that is absent is skipped: no error,
\* no new column, and every listed column that exists is transformed.
C17_CleanSkipsAbsent ==
    (/\ last.op = "clean_data"
     /\ \E c \in ListedColumns(last.args) : c \notin Labels(before))
        => /\ last.err = "none"
           /\ NCols(df) = NCols(before)
           /\ \A p \in 1..NCols(before) :
                 LET c == before.names[p]
                     a == last.args
                 IN /\ c \in Range(a.date_columns) => df.dtypes[p] = "datetime64"
                    /\ (c \in Range(a.string_upper) /\ c \notin Range(a.date_columns))
                          => IsUpperColumn(df, p)
                    /\ (c \in Range(a.string_lower) /\ c \notin Range(a.string_upper)
                           /\ c \notin Range(a.date_columns))
                          => IsLowerColumn(df, p)

\* The state a call found: the scrubber's table as it was before the call.
Before == [heap |-> [caller |-> original, own |-> before], ref |-> "own", err |-> "none"]

C19_CleanNeverRaises ==
    last.op = "clean_data" => (last.err = "none" /\ returned = "DataFrame")

\* C20: after clean_data(drop_duplicates=True, fill_value=v), v not None and
\* nothing else requested, the table has no null and no duplicate row and
\* check_data_consistency_after_cleaning passes.
C20_CleanThenAssertClean ==
    (/\ last.op = "clean_data"
     /\ last.args.fill_value # Null
     /\ last.args = [CleanDefaults EXCEPT !.fill_value = last.args.fill_value])
        => /\ last.err = "none"
           /\ ~HasNullEntry(df)
           /\ ~HasDuplicateRow(df)
           /\ check_data_consistency_after_cleaning(Now).err = "none"


\* Row r of t is the first row with its values at the positions ps.
FirstOn(t, ps, r) ==
    ~\E q \in 1..(r - 1) : \A p \in ps : CellEq(t.rows[q].cells[p], t.rows[r].cells[p])

\* How many of the rows 1..r of t are first on ps.
Rank(t, ps, r) == Cardinality({q \in 1..r : FirstOn(t, ps, q)})

\* u holds the cells of exactly the rows of t that are first on ps, in t's
\* order, under t's columns.
KeepsFirstInOrder(t, u, ps) ==
    /\ u.names = t.names
    /\ u.dtypes = t.dtypes
    /\ NRows(u) = Rank(t, ps, NRows(t))
    /\ \A r \in 1..NRows(t) :
          FirstOn(t, ps, r) => u.rows[Rank(t, ps, r)].cells = t.rows[r].cells

\* C21: in the customers script, remove_duplicates on a frame with a
\* CustomerID column returns the frame with the first row of each CustomerID
\* value, in the original order, and main() goes on to the handling of
\* missing values (and from there to the outliers and to saving).
C21_CustomersDedupeThenProceeds ==
    (pipe.script = "customers" /\ pipe.last = "remove_duplicates"
        /\ HasColumn(pipe.before, "CustomerID")) =>
        /\ pipe.err = "none"
        /\ KeepsFirstInOrder(pipe.before, pipe.df, Positions(pipe.before, "CustomerID"))
        /\ pipe.pc = "handle_missing_values"

\* C22: in the products and the sales script, remove_duplicates keeps the
\* first row of each key value (ProductID, TransactionID) when the key column
\* exists and the first of each group of rows equal in every column when it
\* does not; the kept rows are in the original order under the index
\* 0..n-1, and the frame handed in is left as it was.
C22_KeyedDedupeFreshIndex ==
    (pipe.script \in {"products", "sales"} /\ pipe.last = "remove_duplicates") =>
        LET key == KeyColumn(pipe.script)
            ps == IF HasColumn(pipe.before, key) THEN Positions(pipe.before, key)
                  ELSE 1..NCols(pipe.before)
        IN /\ pipe.err = "none"
           /\ KeepsFirstInOrder(pipe.before, pipe.df, ps)
           /\ \A r \in 1..NRows(pipe.df) : pipe.df.rows[r].idx = r - 1
           /\ pipe.arg = pipe.before

\* remove_duplicates of the products or the sales script dropped a middle row
\* that shares its key with the first row and differs from it elsewhere: the
\* last row moved up to index 1.
C22_Witness ==
    /\ pipe.script \in {"products", "sales"}
    /\ pipe.last = "remove_duplicates"
    /\ HasColumn(pipe.before, KeyColumn(pipe.script))
    /\ NRows(pipe.before) = 3
    /\ NRows(pipe.df) = 2
    /\ pipe.before.rows[2].cells # pipe.before.rows[1].cells
    /\ pipe.df.rows[2].cells = pipe.before.rows[3].cells
    /\ pipe.before.rows[3].idx = 2
    /\ pipe.df.rows[2].idx = 1

====
